---- MODULE Spec2Model ----
(***************************************************************************)
(* Model of the MELD response normalisation pipeline (meld_ollama.py):     *)
(* MELDProcessor.process_query with its three recovery tiers, the          *)
(* interaction history and the performance counters.                       *)
(*                                                                         *)
(* Numbers are fixed point, in hundredths: 0.6 is 60, -0.2 is -20.         *)
(* A text that embeds the query is a sequence of chunks; a query is a      *)
(* sequence of one-character strings.                                      *)
(***************************************************************************)
EXTENDS Integers, Sequences, FiniteSets, TLC

(***************************************************************************)
(* JSON values as the model text carries them.  t is the JSON type of the  *)
(* value ("absent": the key is missing from its object), s the text of a   *)
(* string, n the value of a number or of a numeric string.                 *)
(***************************************************************************)
Absent == [t |-> "absent", s |-> "", n |-> 0]
Null   == [t |-> "null", s |-> "", n |-> 0]
Obj    == [t |-> "obj", s |-> "", n |-> 0]
List   == [t |-> "list", s |-> "", n |-> 0]
Str(x) == [t |-> "str", s |-> x, n |-> 0]
Num(x) == [t |-> "num", s |-> "", n |-> x]
NumStr(x) == [t |-> "numstr", s |-> "", n |-> x]

(***************************************************************************)
(* The schema: the Literal enumerations and the Field(ge, le) ranges.      *)
(***************************************************************************)
ActionTypes == {"cognitive_shift", "state", "visual", "sequence",
                "experience_adaptation", "processing_style", "focus_adjustment"}

BehaviorNames == {"guide", "analyze", "explore", "synthesize", "challenge",
                  "acknowledge", "adapt", "focus", "diverge", "soothe"}

Personas == {"Strategist", "Architect", "Builder", "Explorer", "Sage"}

UnitLo == 0
UnitHi == 100
ValenceLo == -100
ValenceHi == 100

\* a required str field: only a JSON string / Python str is accepted
IsStr(v) == v.t = "str"

\* an Optional[str] field: missing, null or a string
IsOptStr(v) == v.t \in {"absent", "null", "str"}

\* a float field read from JSON text: a number, or a string holding one
\* (lax mode), inside [lo, hi]
IsJsonFloat(v, lo, hi) == v.t \in {"num", "numstr"} /\ lo <= v.n /\ v.n <= hi

IsOptJsonFloat(v, lo, hi) == v.t \in {"absent", "null"} \/ IsJsonFloat(v, lo, hi)

\* an Optional[float] field with no range
IsOptJsonNumber(v) == v.t \in {"absent", "null", "num", "numstr"}

IsLiteral(v, S) == v.t = "str" /\ v.s \in S

\* the value an Optional field holds after validation: None when missing
OptValue(v) == IF v.t = "absent" THEN Null
               ELSE IF v.t = "numstr" THEN Num(v.n) ELSE v

\* a str field's text as a sequence of chunks ("" is the empty sequence)
TextOf(s) == IF s = "" THEN <<>> ELSE <<s>>

(***************************************************************************)
(* MELDAction / MELDBehavior / EmotionalState / MELDMessage validation of  *)
(* a parsed JSON document (model_validate_json).                           *)
(***************************************************************************)
ValidAction(a) ==
    /\ a.self.t = "obj"
    /\ IsLiteral(a.type, ActionTypes)
    /\ IsOptStr(a.target)
    /\ IsOptStr(a.value)
    /\ IsOptJsonNumber(a.duration)
    /\ IsOptStr(a.priority)

ValidBehavior(d) ==
    /\ d.behavior.t = "obj"
    /\ IsLiteral(d.name, BehaviorNames)
    /\ IsOptStr(d.goal)
    /\ d.actions.t = "list"
    /\ \A i \in 1..Len(d.action_items) : ValidAction(d.action_items[i])

ValidEmotionalState(d) ==
    /\ d.emotional_state.t = "obj"
    /\ IsStr(d.primary)
    /\ IsOptStr(d.secondary)
    /\ IsJsonFloat(d.intensity, UnitLo, UnitHi)
    /\ IsJsonFloat(d.valence, ValenceLo, ValenceHi)
    /\ IsJsonFloat(d.arousal, UnitLo, UnitHi)
    /\ IsOptJsonFloat(d.stability, UnitLo, UnitHi)

ValidMessage(d) ==
    /\ d.top = "obj"
    /\ IsStr(d.intent)
    /\ IsLiteral(d.persona, Personas)
    /\ ValidEmotionalState(d)
    /\ IsOptStr(d.emoji)
    /\ IsStr(d.response)
    /\ ValidBehavior(d)
    /\ IsJsonFloat(d.confidence, UnitLo, UnitHi)
    /\ d.metadata.t \in {"absent", "null", "obj"}

\* validation that forgets the metadata of the document
MetadataDropped(d) == [present |-> FALSE, map |-> <<>>]

\* the value the document's metadata mapping holds under a key
MetadataEntry(d, key) ==
    IF key = "fallback_type" THEN d.md_fallback_type ELSE d.md_processing_notes

\* the metadata mapping of a validated message: None, or the mapping of the
\* document with every key it has and whatever JSON value stands under it
\* (Dict[str, Any]; the keys the model tracks: fallback_type,
\* processing_notes)
MetadataOf(d) ==
    IF d.metadata.t # "obj" THEN [present |-> FALSE, map |-> <<>>]
    ELSE [present |-> TRUE,
          map |-> [k \in {f \in {"fallback_type", "processing_notes"} :
                            MetadataEntry(d, f).t # "absent"}
                     |-> MetadataEntry(d, k)]]

ActionOf(a) ==
    [type |-> a.type.s, target |-> OptValue(a.target), value |-> OptValue(a.value),
     duration |-> OptValue(a.duration), priority |-> OptValue(a.priority)]

\* the MELDMessage built from a valid document: declared fields only, numeric
\* strings converted, missing optionals None, unknown keys ignored
MessageOf(d) ==
    [intent |-> d.intent.s,
     persona |-> d.persona.s,
     emotional_state |->
        [primary |-> d.primary.s, secondary |-> OptValue(d.secondary),
         intensity |-> d.intensity.n, valence |-> d.valence.n,
         arousal |-> d.arousal.n, stability |-> OptValue(d.stability)],
     emoji |-> OptValue(d.emoji),
     response |-> TextOf(d.response.s),
     behavior |->
        [name |-> d.name.s, goal |-> OptValue(d.goal),
         actions |-> [i \in 1..Len(d.action_items) |-> ActionOf(d.action_items[i])]],
     confidence |-> d.confidence.n,
     metadata |-> MetadataOf(d)]

(***************************************************************************)
(* Text helpers: str.lower() and the substring test of `word in text`.     *)
(***************************************************************************)
UpperLetters == <<"A","B","C","D","E","F","G","H","I","J","K","L","M",
                  "N","O","P","Q","R","S","T","U","V","W","X","Y","Z">>

LowerLetters == <<"a","b","c","d","e","f","g","h","i","j","k","l","m",
                  "n","o","p","q","r","s","t","u","v","w","x","y","z">>

LowerChar(c) ==
    IF \E i \in 1..Len(UpperLetters) : UpperLetters[i] = c
    THEN LowerLetters[CHOOSE i \in 1..Len(UpperLetters) : UpperLetters[i] = c]
    ELSE c

Lower(text) == [i \in 1..Len(text) |-> LowerChar(text[i])]

Contains(text, word) ==
    \E i \in 0..(Len(text) - Len(word)) : SubSeq(text, i + 1, i + Len(word)) = word

AnyWordIn(words, text) == \E w \in words : Contains(text, w)

AnalysisWords == {<<"a","n","a","l","y","z","e">>, <<"c","o","m","p","a","r","e">>,
                  <<"e","v","a","l","u","a","t","e">>}

ExplorationWords == {<<"e","x","p","l","o","r","e">>, <<"d","i","s","c","o","v","e","r">>,
                     <<"l","e","a","r","n">>}

CreationWords == {<<"b","u","i","l","d">>, <<"c","r","e","a","t","e">>, <<"m","a","k","e">>}

(***************************************************************************)
(* Results of a call that may raise: raised, the exception text, the value *)
(* returned otherwise, and the counters as the call left them.             *)
(***************************************************************************)
Returned(stats, val) == [stats |-> stats, raised |-> FALSE, exc |-> "", val |-> val]

Raised(stats, exc) == [stats |-> stats, raised |-> TRUE, exc |-> exc, val |-> <<>>]

Max(a, b) == IF b > a THEN b ELSE a

Min(a, b) == IF b < a THEN b ELSE a

\* the two bounds taken in the wrong order: max(min(v, lo), hi)
ClampSwapped(v, lo, hi) == Max(Min(v, lo), hi)

\* the clamp with its lower bound forgotten
ClampUpperOnly(v, lo, hi) == Min(v, hi)

\* min(max(v, lo), hi) as _create_partial_meld writes it
Clamp(v, lo, hi) == Min(Max(v, lo), hi)

\* data.get(container, {}).get(field, default): the field of a nested object,
\* missing when the container itself is missing
Nested(d, container, field) == IF container.t = "absent" THEN Absent ELSE field

\* min(max(x, lo), hi) raises TypeError unless x is a number
IsPyNumber(v) == v.t \in {"absent", "num"}

\* the default whatever the source holds
NumberOrDefaultOnly(v, default) == default

\* data.get(field, default) for a number
NumberOr(v, default) == IF v.t = "absent" THEN default ELSE v.n

StringOr(v, default) == IF v.t = "absent" THEN default ELSE v.s

\* what makes the body of _create_partial_meld raise: .get on a value that
\* is not a dict, min/max on a value that is not a number, and the model
\* constructors rejecting a value of the wrong type
PartialRaises(d) ==
    \/ d.top # "obj"
    \/ ~(d.intent.t \in {"absent", "str"})
    \/ ~(d.emotional_state.t \in {"absent", "obj"})
    \/ ~(Nested(d, d.emotional_state, d.primary).t \in {"absent", "str"})
    \/ ~IsPyNumber(Nested(d, d.emotional_state, d.intensity))
    \/ ~IsPyNumber(Nested(d, d.emotional_state, d.valence))
    \/ ~IsPyNumber(Nested(d, d.emotional_state, d.arousal))
    \/ ~IsOptStr(d.emoji)
    \/ ~(d.response.t \in {"absent", "str"})
    \/ ~(d.behavior.t \in {"absent", "obj"})
    \/ ~IsOptStr(Nested(d, d.behavior, d.goal))
    \/ ~IsPyNumber(d.confidence)

\* the exception that body raises: the first fault in the order Python
\* evaluates the arguments of MELDMessage(...) at lines 231-249: data.get,
\* then the .get and min/max arguments of EmotionalState and its
\* constructor, then those of MELDBehavior and its constructor, then the
\* confidence, and the MELDMessage constructor last
PartialExc(d) ==
    IF d.top # "obj" THEN "AttributeError"
    ELSE IF ~(d.emotional_state.t \in {"absent", "obj"}) THEN "AttributeError"
    ELSE IF ~IsPyNumber(Nested(d, d.emotional_state, d.intensity))
            \/ ~IsPyNumber(Nested(d, d.emotional_state, d.valence))
            \/ ~IsPyNumber(Nested(d, d.emotional_state, d.arousal))
    THEN "TypeError"
    ELSE IF ~(Nested(d, d.emotional_state, d.primary).t \in {"absent", "str"})
    THEN "ValidationError"
    ELSE IF ~(d.behavior.t \in {"absent", "obj"}) THEN "AttributeError"
    ELSE IF ~IsOptStr(Nested(d, d.behavior, d.goal)) THEN "ValidationError"
    ELSE IF ~IsPyNumber(d.confidence) THEN "TypeError"
    ELSE "ValidationError"

\* the persona of the source whatever string it is
PartialPersonaPassThrough(d) == StringOr(d.persona, "Sage")

\* data.get("persona", "Sage") if data.get("persona") in [...] else "Sage"
PartialPersona(d) == IF IsLiteral(d.persona, Personas) THEN d.persona.s ELSE "Sage"

\* "acknowledge" if data.get("behavior", {}).get("name") not in [...] else
\* data.get("behavior", {}).get("name", "acknowledge")
PartialBehaviorName(d) ==
    IF ~IsLiteral(Nested(d, d.behavior, d.name), BehaviorNames)
    THEN "acknowledge" ELSE Nested(d, d.behavior, d.name).s

\* the reconstruction keeping the actions of the source when it has a list
PartialActionsFromSource(d) ==
    IF Nested(d, d.behavior, d.actions).t = "list"
    THEN [i \in 1..Len(d.action_items) |->
            [type |-> d.action_items[i].type.s,
             target |-> d.action_items[i].target, value |-> d.action_items[i].value,
             duration |-> Null, priority |-> Null]]
    ELSE <<[type |-> "state", target |-> Str("assistance"), value |-> Str("active"),
            duration |-> Null, priority |-> Null]>>

\* the actions of a reconstructed record: one fixed MELDAction, whatever the
\* source holds
PartialActions(d) ==
    <<[type |-> "state", target |-> Str("assistance"), value |-> Str("active"),
       duration |-> Null, priority |-> Null]>>

BumpFallbacks(stats) == [stats EXCEPT !.fallbacks_used = @ + 1]

\* _create_partial_meld: the counter is bumped first, then the record is
\* built from whatever the parsed data holds
CreatePartialMeld(stats, d, user_input) ==
    IF PartialRaises(d) THEN Raised(BumpFallbacks(stats), PartialExc(d))
    ELSE Returned(BumpFallbacks(stats),
        [intent |-> StringOr(d.intent, "general_assistance"),
         persona |-> PartialPersona(d),
         emotional_state |->
            [primary |-> StringOr(Nested(d, d.emotional_state, d.primary), "helpful"),
             secondary |-> Null,
             intensity |-> Clamp(NumberOr(Nested(d, d.emotional_state, d.intensity), 70),
                                 UnitLo, UnitHi),
             valence |-> Clamp(NumberOr(Nested(d, d.emotional_state, d.valence), 50),
                               ValenceLo, ValenceHi),
             arousal |-> Clamp(NumberOr(Nested(d, d.emotional_state, d.arousal), 50),
                               UnitLo, UnitHi),
             stability |-> Null],
         emoji |-> IF d.emoji.t = "absent" THEN Str("robot") ELSE d.emoji,
         response |-> IF d.response.t = "absent"
                      THEN <<"I understand you're asking about: ">> \o user_input
                           \o <<". Let me help you with that.">>
                      ELSE TextOf(d.response.s),
         behavior |->
            [name |-> PartialBehaviorName(d),
             goal |-> IF Nested(d, d.behavior, d.goal).t = "absent"
                      THEN Str("Provide helpful assistance")
                      ELSE Nested(d, d.behavior, d.goal),
             actions |-> PartialActions(d)],
         confidence |-> Clamp(NumberOr(d.confidence, 60), UnitLo, UnitHi),
         metadata |-> [present |-> TRUE,
                       map |-> [k \in {"fallback_type", "original_data_quality"} |->
                                  IF k = "fallback_type" THEN Str("partial_extraction")
                                  ELSE Str("partial")]]])

\* the keyword rules applied to the query as typed, without lower()
ClassifyCaseSensitive(user_input) ==
    IF AnyWordIn(AnalysisWords, user_input)
    THEN [persona |-> "Strategist", behavior_name |-> "analyze",
          emotion |-> "analytical", intent |-> "analysis_request"]
    ELSE IF AnyWordIn(ExplorationWords, user_input)
    THEN [persona |-> "Explorer", behavior_name |-> "explore",
          emotion |-> "curious", intent |-> "exploration_request"]
    ELSE IF AnyWordIn(CreationWords, user_input)
    THEN [persona |-> "Builder", behavior_name |-> "guide",
          emotion |-> "practical", intent |-> "creation_request"]
    ELSE [persona |-> "Sage", behavior_name |-> "acknowledge",
          emotion |-> "helpful", intent |-> "general_assistance"]

\* the keyword rules of _create_intelligent_fallback, first match wins
Classify(user_input) ==
    LET text == Lower(user_input)
    IN IF AnyWordIn(AnalysisWords, text)
       THEN [persona |-> "Strategist", behavior_name |-> "analyze",
             emotion |-> "analytical", intent |-> "analysis_request"]
       ELSE IF AnyWordIn(ExplorationWords, text)
       THEN [persona |-> "Explorer", behavior_name |-> "explore",
             emotion |-> "curious", intent |-> "exploration_request"]
       ELSE IF AnyWordIn(CreationWords, text)
       THEN [persona |-> "Builder", behavior_name |-> "guide",
             emotion |-> "practical", intent |-> "creation_request"]
       ELSE [persona |-> "Sage", behavior_name |-> "acknowledge",
             emotion |-> "helpful", intent |-> "general_assistance"]

\* a fallback whose confidence drops once fallbacks were used before
CreateIntelligentFallbackDegrading(stats, user_input, error_msg) ==
    LET rule == Classify(user_input)
    IN Returned(BumpFallbacks(stats),
        [intent |-> rule.intent,
         persona |-> rule.persona,
         emotional_state |->
            [primary |-> rule.emotion, secondary |-> Null,
             intensity |-> 70, valence |-> 50, arousal |-> 40,
             stability |-> Num(80)],
         emoji |-> Str("shield"),
         response |-> <<"I encountered a processing issue, but I can still help you with '">>
                      \o user_input
                      \o <<"'. While my cognitive control system had difficulties, I'm functioning in safe mode and ready to assist.">>,
         behavior |->
            [name |-> rule.behavior_name,
             goal |-> Str("Provide reliable assistance despite processing limitations"),
             actions |-> <<[type |-> "state", target |-> Str("safe_mode"),
                            value |-> Str("active"), duration |-> Null,
                            priority |-> Null],
                           [type |-> "cognitive_shift", target |-> Str("fallback_processing"),
                            value |-> Str("enabled"), duration |-> Null,
                            priority |-> Null]>>],
         confidence |-> IF stats.fallbacks_used > 0 THEN 50 ELSE 60,
         metadata |-> [present |-> TRUE,
                       map |-> [k \in {"fallback_type", "error", "processing_mode"} |->
                                  IF k = "fallback_type" THEN Str("intelligent_analysis")
                                  ELSE IF k = "error" THEN Str(error_msg)
                                  ELSE Str("safe_fallback")]]])

CreateIntelligentFallback(stats, user_input, error_msg) ==
    LET rule == Classify(user_input)
    IN Returned(BumpFallbacks(stats),
        [intent |-> rule.intent,
         persona |-> rule.persona,
         emotional_state |->
            [primary |-> rule.emotion, secondary |-> Null,
             intensity |-> 70, valence |-> 50, arousal |-> 40,
             stability |-> Num(80)],
         emoji |-> Str("shield"),
         response |-> <<"I encountered a processing issue, but I can still help you with '">>
                      \o user_input
                      \o <<"'. While my cognitive control system had difficulties, I'm functioning in safe mode and ready to assist.">>,
         behavior |->
            [name |-> rule.behavior_name,
             goal |-> Str("Provide reliable assistance despite processing limitations"),
             actions |-> <<[type |-> "state", target |-> Str("safe_mode"),
                            value |-> Str("active"), duration |-> Null,
                            priority |-> Null],
                           [type |-> "cognitive_shift", target |-> Str("fallback_processing"),
                            value |-> Str("enabled"), duration |-> Null,
                            priority |-> Null]>>],
         confidence |-> 60,
         metadata |-> [present |-> TRUE,
                       map |-> [k \in {"fallback_type", "error", "processing_mode"} |->
                                  IF k = "fallback_type" THEN Str("intelligent_analysis")
                                  ELSE IF k = "error" THEN Str(error_msg)
                                  ELSE Str("safe_fallback")]]])

\* the connectivity fallback built by the keyword classifier instead
CreateConnectionFallbackClassified(stats, user_input) ==
    Returned(stats, CreateIntelligentFallback(stats, user_input, <<"connection_failure">>).val)

\* a connection fallback that counts itself as a fallback
CreateConnectionFallbackCounted(stats, user_input) ==
    Returned(BumpFallbacks(stats),
             CreateIntelligentFallback(stats, user_input, <<"connection_failure">>).val)

\* _create_connection_fallback touches no counter
CreateConnectionFallback(stats, user_input) ==
    Returned(stats,
        [intent |-> "connection_error",
         persona |-> "Sage",
         emotional_state |->
            [primary |-> "concerned", secondary |-> Str("helpful"),
             intensity |-> 60, valence |-> -20, arousal |-> 30,
             stability |-> Null],
         emoji |-> Str("plug"),
         response |-> <<"I'm unable to connect to the local AI model (Ollama) to process your request about '">>
                      \o user_input
                      \o <<"'. Please ensure Ollama is running with 'ollama serve' and try again.">>,
         behavior |->
            [name |-> "acknowledge",
             goal |-> Str("Inform user of connection issue and provide guidance"),
             actions |-> <<[type |-> "state", target |-> Str("connection"),
                            value |-> Str("error"), duration |-> Null,
                            priority |-> Null],
                           [type |-> "visual", target |-> Str("status"),
                            value |-> Str("warning"), duration |-> Null,
                            priority |-> Null]>>],
         confidence |-> 95,
         metadata |-> [present |-> TRUE,
                       map |-> [k \in {"error_type", "suggested_action"} |->
                                  IF k = "error_type" THEN Str("connection_failure")
                                  ELSE Str("restart_ollama")]]])

(***************************************************************************)
(* _parse_meld_response: strict validation, then json.loads and partial    *)
(* extraction, then the keyword fallback when either of those raises (the  *)
(* bare except).  steps lists what was attempted, producer names the tier  *)
(* whose record is returned.                                               *)
(***************************************************************************)
\* a validation that leaves the counter alone
BumpParsesNever(stats) == stats

\* self.performance_stats["successful_parses"] += 1
BumpParses(stats) == [stats EXCEPT !.successful_parses = @ + 1]

\* str(e) of the ValidationError raised by model_validate_json
ValidationErrorText == "validation error for MELDMessage"

\* f"JSON parsing failed: {str(e)}"
ParseFailureText == <<"JSON parsing failed: ", ValidationErrorText>>

\* json.loads accepts every JSON text, whatever its top-level value
JsonLoadsRaises(d) == d.top = "text"

WithTrace(res, steps, producer) ==
    [stats |-> res.stats, raised |-> res.raised, exc |-> res.exc, val |-> res.val,
     steps |-> steps, producer |-> producer]

ParseMeldResponse(stats, d, user_input) ==
    LET partial == CreatePartialMeld(stats, d, user_input)
    IN IF ValidMessage(d)
       THEN WithTrace(Returned(BumpParses(stats), MessageOf(d)),
                      <<"validate">>, "validator")
       ELSE IF JsonLoadsRaises(d)
       THEN WithTrace(CreateIntelligentFallback(stats, user_input,
                           ParseFailureText),
                      <<"validate", "json_loads", "intelligent_fallback">>, "heuristic")
       ELSE IF partial.raised
       THEN WithTrace(CreateIntelligentFallback(partial.stats, user_input,
                           ParseFailureText),
                      <<"validate", "json_loads", "partial_meld", "intelligent_fallback">>,
                      "heuristic")
       ELSE WithTrace(partial, <<"validate", "json_loads", "partial_meld">>, "partial")

(***************************************************************************)
(* The collaborators: the connectivity probe and the chat request.         *)
(***************************************************************************)
ProbeResults == {"status_200", "status_503", "exception"}

\* _check_ollama_connection: status_code == 200, and False on any exception
\* (the bare except), so the check itself never raises
CheckOllamaConnection(probe) ==
    IF probe = "exception" THEN Returned(<<>>, FALSE)
    ELSE Returned(<<>>, probe = "status_200")

\* what the POST and the decoding of its body can do
TransportOutcomes == {"ok", "http_error", "http_error_closing_tag",
                      "http_error_closing_any", "timeout", "connection_error",
                      "invalid_body", "no_message", "not_dict"}

\* requests.post / raise_for_status / response.json() / result.get raising
DispatchRaises(transport) ==
    transport \in {"http_error", "http_error_closing_tag", "http_error_closing_any",
                   "timeout", "connection_error", "invalid_body", "not_dict"}

\* str(e) of the exception, as chunks; a piece of console markup in the
\* text (here in the reason phrase the server sent) is a chunk of its own
DispatchExc(transport) ==
    CASE transport = "http_error" -> <<"500 Server Error">>
      [] transport = "http_error_closing_tag" ->
            <<"500 Server Error: ", "[/x]",
              " oops for url: http://localhost:11434/api/chat">>
      [] transport = "http_error_closing_any" ->
            <<"500 Server Error: Bad ", "[/]",
              " Gateway for url: http://localhost:11434/api/chat">>
      [] transport = "timeout" -> <<"Read timed out. (read timeout=45)">>
      [] transport = "connection_error" -> <<"Connection aborted">>
      [] transport = "invalid_body" -> <<"Expecting value: line 1 column 1 (char 0)">>
      [] transport = "not_dict" -> <<"'list' object has no attribute 'get'">>
      [] OTHER -> <<>>

\* the tags of console markup that occur in the texts of the model
OpeningTags == {"[yellow]", "[bold red]", "[x]"}

ClosingTags == {"[/yellow]", "[/bold red]", "[/x]"}

Opener(tag) ==
    IF tag = "[/yellow]" THEN "[yellow]"
    ELSE IF tag = "[/bold red]" THEN "[bold red]"
    ELSE "[x]"

\* the stack of open tags without the innermost tag that is tag
RECURSIVE WithoutLast(_, _)
WithoutLast(open, tag) ==
    IF open[Len(open)] = tag THEN SubSeq(open, 1, Len(open) - 1)
    ELSE Append(WithoutLast(SubSeq(open, 1, Len(open) - 1), tag), open[Len(open)])

\* console.print renders markup: a closing tag must match a tag that is
\* open ("[/]" closes the innermost one); MarkupFault is the first closing
\* tag that matches none, "" when the text renders
RECURSIVE MarkupFault(_, _)
MarkupFault(chunks, open) ==
    IF Len(chunks) = 0 THEN ""
    ELSE IF Head(chunks) \in OpeningTags
    THEN MarkupFault(Tail(chunks), Append(open, Head(chunks)))
    ELSE IF Head(chunks) = "[/]"
    THEN IF Len(open) = 0 THEN "[/]"
         ELSE MarkupFault(Tail(chunks), SubSeq(open, 1, Len(open) - 1))
    ELSE IF Head(chunks) \in ClosingTags
    THEN IF ~\E i \in 1..Len(open) : open[i] = Opener(Head(chunks))
         THEN Head(chunks)
         ELSE MarkupFault(Tail(chunks), WithoutLast(open, Opener(Head(chunks))))
    ELSE MarkupFault(Tail(chunks), open)

\* the print raises MarkupError when a closing tag matches no open tag
MarkupRaises(chunks, open) == MarkupFault(chunks, open) # ""

\* str() of the MarkupError: it quotes the tag (the position number, which
\* carries no markup, is left out of the text)
MarkupErrorText(tag) ==
    IF tag = "[/]" THEN <<"closing tag '", tag, "' has nothing to close">>
    ELSE <<"closing tag '", tag, "' doesn't match any open tag">>

\* the line process_query prints when it handles an exception
FailureNotice(error_msg) ==
    <<"[yellow]", "MELD processing failed: ">> \o error_msg \o <<"[/yellow]">>

\* the fixed system directive
MELD_SYSTEM_PROMPT == "MELD_SYSTEM_PROMPT"

\* ', '.join(names)
RECURSIVE JoinComma(_)
JoinComma(names) ==
    IF Len(names) = 0 THEN <<>>
    ELSE IF Len(names) = 1 THEN <<names[1]>>
    ELSE <<names[1], ", ">> \o JoinComma(Tail(names))

\* the whole history instead of its last three entries
LastThreeAll(history) == history

\* interaction_history[-3:]
LastThree(history) ==
    SubSeq(history, Max(1, Len(history) - 2), Len(history))

RecentPersonas(history) == [i \in 1..Len(LastThree(history)) |-> LastThree(history)[i].persona]

\* _prepare_messages: the system message and the user message, as chunks
PrepareMessages(history, user_input, context) ==
    [system |-> <<MELD_SYSTEM_PROMPT>> \o
                (IF Len(history) > 0
                 THEN <<"\nRecent interaction context: You've been acting as ">>
                      \o JoinComma(RecentPersonas(history))
                      \o <<" in recent exchanges.">>
                 ELSE <<>>),
     user |-> <<"Context: ">> \o TextOf(context) \o <<"\n\nUser Query: ">> \o user_input]

RECURSIVE SumConfidence(_)
SumConfidence(history) ==
    IF Len(history) = 0 THEN 0
    ELSE history[1].confidence + SumConfidence(Tail(history))

\* the quotient a / b, kept as the pair it is computed from
Quotient(a, b) == [num |-> a, den |-> b]

\* an entry that files the persona under behavior as well
InteractionPersonaTwice(user_input, meld_response, processing_time, success, timestamp) ==
    [timestamp |-> timestamp,
     user_input |-> user_input,
     persona |-> meld_response.persona,
     behavior |-> meld_response.persona,
     confidence |-> meld_response.confidence,
     processing_time |-> processing_time,
     success |-> success]

\* the interaction dict of _record_interaction
Interaction(user_input, meld_response, processing_time, success, timestamp) ==
    [timestamp |-> timestamp,
     user_input |-> user_input,
     persona |-> meld_response.persona,
     behavior |-> meld_response.behavior.name,
     confidence |-> meld_response.confidence,
     processing_time |-> processing_time,
     success |-> success]

\* an insertion at the front of the list instead of its end
AppendEntryNewestFirst(history, entry) == <<entry>> \o history

\* self.interaction_history.append(interaction)
AppendEntry(history, entry) == Append(history, entry)

\* _record_interaction: append, recompute the average, remember time and query
RecordInteraction(st, user_input, meld_response, processing_time, success, timestamp) ==
    LET history == AppendEntry(st.interaction_history,
                               Interaction(user_input, meld_response, processing_time,
                                           success, timestamp))
    IN [interaction_history |-> history,
        performance_stats |->
            [st.performance_stats EXCEPT !.avg_confidence =
                Quotient(SumConfidence(history), Len(history))],
        last_processing_time |-> processing_time,
        last_user_query |-> user_input]

(***************************************************************************)
(* process_query as a function of the processor's state and of what the    *)
(* collaborators do during the call.                                       *)
(***************************************************************************)
\* the raw text handed to _parse_meld_response:
\* result.get("message", {}).get("content", "")
ContentOf(transport, d) ==
    IF transport = "no_message" THEN [d EXCEPT !.top = "text", !.text = ""] ELSE d

Outcome(st, res, steps, request) ==
    [st |-> st, raised |-> res.raised, exc |-> res.exc, val |-> res.val,
     producer |-> res.producer, text |-> <<>>, steps |-> steps, request |-> request]

\* self.performance_stats["total_requests"] += 1
BumpRequests(stats) == [stats EXCEPT !.total_requests = @ + 1]

\* the except branch of process_query
HandleException(st, user_input, error_msg, elapsed, timestamp, steps, request) ==
    LET fallback == CreateIntelligentFallback(st.performance_stats, user_input, error_msg)
    IN IF MarkupRaises(FailureNotice(error_msg), <<>>)
       THEN [Outcome(st, WithTrace(Raised(st.performance_stats, "MarkupError"), <<>>, "none"),
                     steps, request)
             EXCEPT !.text = MarkupErrorText(MarkupFault(FailureNotice(error_msg), <<>>))]
       ELSE Outcome(RecordInteraction([st EXCEPT !.performance_stats = fallback.stats],
                                      user_input, fallback.val, elapsed, FALSE, timestamp),
                    WithTrace(fallback, <<>>, "heuristic"),
                    steps \o <<"intelligent_fallback", "record_interaction">>, request)

ProcessQueryCall(st0, user_input, context, probe, transport, d, elapsed, timestamp) ==
    LET st == [st0 EXCEPT !.performance_stats = BumpRequests(@)]
        conn == CheckOllamaConnection(probe)
        connection == CreateConnectionFallback(st.performance_stats, user_input)
        messages == PrepareMessages(st.interaction_history, user_input, context)
        parsed == ParseMeldResponse(st.performance_stats, ContentOf(transport, d), user_input)
    IN IF conn.raised
       THEN Outcome(st, WithTrace(conn, <<>>, "none"), <<"check_connection">>, <<>>)
       ELSE IF ~conn.val
       THEN Outcome([st EXCEPT !.performance_stats = connection.stats],
                    WithTrace(connection, <<>>, "connection"),
                    <<"check_connection", "connection_fallback">>, <<>>)
       ELSE IF DispatchRaises(transport)
       THEN HandleException(st, user_input, DispatchExc(transport), elapsed, timestamp,
                            <<"check_connection", "prepare_messages", "post">>, <<messages>>)
       ELSE IF parsed.raised
       THEN HandleException([st EXCEPT !.performance_stats = parsed.stats], user_input,
                            parsed.exc, elapsed, timestamp,
                            <<"check_connection", "prepare_messages", "post">> \o parsed.steps,
                            <<messages>>)
       ELSE Outcome(RecordInteraction([st EXCEPT !.performance_stats = parsed.stats],
                                      user_input, parsed.val, elapsed, TRUE, timestamp),
                    parsed,
                    <<"check_connection", "prepare_messages", "post">> \o parsed.steps
                        \o <<"record_interaction">>,
                    <<messages>>)

(***************************************************************************)
(* Inputs.  Queries are what the user types; documents are what the model  *)
(* answers: the example of the system prompt, that example with one field  *)
(* changed, and a few documents of another shape.                          *)
(***************************************************************************)
QueryAnalyze == <<"A","n","a","l","y","z","e"," ","i","t">>

QueryLearnBuild == <<"l","e","a","r","n"," ","t","o"," ","b","u","i","l","d">>

QueryRemake == <<"r","e","m","a","k","e">>

QueryHello == <<"h","e","l","l","o">>

QueryExploreCompare == <<"e","x","p","l","o","r","e",","," ","C","O","M","P","A","R","E">>

Queries == {QueryAnalyze, QueryLearnBuild, QueryRemake, QueryHello, QueryExploreCompare}

CoreQueries == {QueryAnalyze, QueryHello}

ExampleAction ==
    [self |-> Obj, type |-> Str("cognitive_shift"), target |-> Str("thinking_mode"),
     value |-> Str("analytical"), duration |-> Absent, priority |-> Absent]

\* the example document of MELD_SYSTEM_PROMPT
Example ==
    [top |-> "obj", text |-> "",
     intent |-> Str("seek_clarity"),
     persona |-> Str("Explorer"),
     emotional_state |-> Obj,
     primary |-> Str("curious"), secondary |-> Str("focused"),
     intensity |-> Num(80), valence |-> Num(50), arousal |-> Num(60),
     stability |-> Num(70),
     emoji |-> Str("bulb"),
     response |-> Str("your natural language answer"),
     behavior |-> Obj,
     name |-> Str("explore"), goal |-> Str("clarify"),
     actions |-> List, action_items |-> <<ExampleAction>>,
     confidence |-> Num(85),
     metadata |-> Obj, md_fallback_type |-> Absent,
     md_processing_notes |-> Str("any relevant notes"),
     extra |-> FALSE]

FieldChanges ==
    {<<"intent", Absent>>, <<"intent", Null>>, <<"intent", Num(5)>>,
     <<"persona", Absent>>, <<"persona", Null>>, <<"persona", Str("Wizard")>>,
     <<"persona", Str("Sage")>>, <<"persona", Num(1)>>,
     <<"emotional_state", Absent>>, <<"emotional_state", Null>>,
     <<"emotional_state", Str("calm")>>,
     <<"primary", Absent>>, <<"primary", Num(1)>>,
     <<"secondary", Absent>>, <<"secondary", Null>>, <<"secondary", Num(1)>>,
     <<"intensity", Absent>>, <<"intensity", Null>>, <<"intensity", Num(150)>>,
     <<"intensity", Num(-20)>>, <<"intensity", Num(0)>>, <<"intensity", Num(100)>>,
     <<"intensity", NumStr(50)>>, <<"intensity", NumStr(150)>>,
     <<"intensity", Str("high")>>,
     <<"valence", Absent>>, <<"valence", Num(-100)>>, <<"valence", Num(-150)>>,
     <<"valence", Num(150)>>,
     <<"arousal", Absent>>, <<"arousal", Num(120)>>, <<"arousal", Num(-1)>>,
     <<"stability", Absent>>, <<"stability", Null>>, <<"stability", Num(120)>>,
     <<"emoji", Absent>>, <<"emoji", Null>>, <<"emoji", Num(1)>>,
     <<"response", Absent>>, <<"response", Null>>, <<"response", Str("")>>,
     <<"behavior", Absent>>, <<"behavior", Null>>, <<"behavior", Str("explore")>>,
     <<"name", Absent>>, <<"name", Null>>, <<"name", Str("dance")>>,
     <<"name", Str("soothe")>>,
     <<"goal", Absent>>, <<"goal", Null>>, <<"goal", Num(1)>>,
     <<"actions", Absent>>, <<"actions", Null>>, <<"actions", Str("none")>>,
     <<"confidence", Absent>>, <<"confidence", Null>>, <<"confidence", Num(150)>>,
     <<"confidence", Num(-5)>>, <<"confidence", Num(0)>>, <<"confidence", Num(100)>>,
     <<"confidence", NumStr(90)>>, <<"confidence", Str("high")>>,
     <<"metadata", Absent>>, <<"metadata", Null>>, <<"metadata", Str("none")>>,
     <<"md_fallback_type", Str("model_supplied")>>, <<"md_fallback_type", Num(100)>>,
     <<"md_fallback_type", Num(0)>>, <<"md_fallback_type", Null>>,
     <<"md_fallback_type", List>>, <<"md_fallback_type", Obj>>,
     <<"md_processing_notes", Absent>>, <<"md_processing_notes", Null>>,
     <<"md_processing_notes", Num(1)>>}

\* {}: an object with no key at all
EmptyObject ==
    [top |-> "obj", text |-> "",
     intent |-> Absent, persona |-> Absent, emotional_state |-> Absent,
     primary |-> Absent, secondary |-> Absent, intensity |-> Absent,
     valence |-> Absent, arousal |-> Absent, stability |-> Absent,
     emoji |-> Absent, response |-> Absent, behavior |-> Absent,
     name |-> Absent, goal |-> Absent, actions |-> Absent, action_items |-> <<>>,
     confidence |-> Absent, metadata |-> Absent, md_fallback_type |-> Absent,
     md_processing_notes |-> Absent, extra |-> FALSE]

\* several fields wrong at once, each recoverable
OutOfRange ==
    [Example EXCEPT !.persona = Str("Wizard"), !.intensity = Num(150),
                    !.valence = Num(-150), !.confidence = Num(150)]

\* a field the reconstruction cannot use
NullIntent == [Example EXCEPT !.intent = Null, !.confidence = Num(20)]

\* not JSON at all
Prose == [Example EXCEPT !.top = "text", !.text = "Sure! Here is my answer."]

OwnFallbackType == [Example EXCEPT !.md_fallback_type = Str("model_supplied")]

\* an empty response next to a persona that fails validation
EmptyResponseWizard == [Example EXCEPT !.response = Str(""), !.persona = Str("Wizard")]

\* numbers exactly on the bounds of their ranges, validation failing elsewhere
AtBounds ==
    [Example EXCEPT !.persona = Str("Wizard"), !.intensity = Num(UnitLo),
                    !.valence = Num(ValenceLo), !.arousal = Num(UnitHi),
                    !.confidence = Num(UnitHi)]

OtherDocuments ==
    {EmptyObject, OutOfRange, NullIntent, Prose, EmptyResponseWizard, AtBounds,
     [Example EXCEPT !.top = "list"], [Example EXCEPT !.top = "null"],
     [Example EXCEPT !.top = "num"], [Example EXCEPT !.top = "str"],
     [Example EXCEPT !.extra = TRUE],
     [Example EXCEPT !.action_items = <<>>],
     [Example EXCEPT !.action_items = <<ExampleAction,
         [ExampleAction EXCEPT !.type = Str("state"), !.duration = Num(150)]>>],
     [Example EXCEPT !.action_items = <<[ExampleAction EXCEPT !.type = Str("jump")]>>],
     [Example EXCEPT !.action_items = <<[ExampleAction EXCEPT !.self = Str("think")]>>],
     [Example EXCEPT !.intent = Absent,
                     !.action_items = <<ExampleAction, ExampleAction>>]}

Documents ==
    {Example} \cup {[Example EXCEPT ![c[1]] = c[2]] : c \in FieldChanges}
    \cup OtherDocuments

CoreDocuments == {Example, OwnFallbackType, OutOfRange, NullIntent, Prose}

\* seconds between the start of a call and its recording
Latencies == {2, 7}

\* outcomes of the chat request for the runs of several calls
CoreTransports == {"timeout", "invalid_body", "http_error_closing_tag"}

CoreLatencies == {2}

(***************************************************************************)
(* State.  The first four variables are the fields of MELDProcessor; now   *)
(* is the clock read by datetime.now(); console is the last table printed  *)
(* by show_performance_stats; call, returned, steps, request and log       *)
(* observe the calls made: the inputs, result, controller steps and        *)
(* request of the last call and, per call made, the tier that answered it. *)
(***************************************************************************)
VARIABLES interaction_history, performance_stats, last_processing_time,
          last_user_query, now, console, call, returned, steps, request, log

vars == <<interaction_history, performance_stats, last_processing_time,
          last_user_query, now, console, call, returned, steps, request, log>>

processor == <<interaction_history, performance_stats, last_processing_time,
               last_user_query>>

\* bounds on the number of process_query calls in a run
MaxCalls == 3
MaxInputCalls == 1

NoCall == [user_input |-> <<>>, probe |-> "none", transport |-> "none",
           document |-> EmptyObject, elapsed |-> 0]

NoResult == [raised |-> FALSE, exc |-> "", val |-> <<>>, producer |-> "none", text |-> <<>>]

\* MELDProcessor.__init__
Init ==
    /\ interaction_history = <<>>
    /\ performance_stats = [successful_parses |-> 0, fallbacks_used |-> 0,
                            total_requests |-> 0, avg_confidence |-> Quotient(0, 1)]
    /\ last_processing_time = 0
    /\ last_user_query = <<>>
    /\ now = 0
    /\ console = <<>>
    /\ call = NoCall
    /\ returned = NoResult
    /\ steps = <<>>
    /\ request = <<>>
    /\ log = <<>>

Self ==
    [interaction_history |-> interaction_history,
     performance_stats |-> performance_stats,
     last_processing_time |-> last_processing_time,
     last_user_query |-> last_user_query]

\* one call of process_query(user_input), from entry to return or raise
ProcessQuery(user_input, probe, transport, d, elapsed) ==
    \E out \in {ProcessQueryCall(Self, user_input, "", probe, transport, d,
                                 elapsed, now + 1)} :
       /\ interaction_history' = out.st.interaction_history
       /\ performance_stats' = out.st.performance_stats
       /\ last_processing_time' = out.st.last_processing_time
       /\ last_user_query' = out.st.last_user_query
       /\ now' = now + 1
       /\ call' = [user_input |-> user_input, probe |-> probe, transport |-> transport,
                   document |-> ContentOf(transport, d), elapsed |-> elapsed]
       /\ returned' = [raised |-> out.raised, exc |-> out.exc, val |-> out.val,
                       producer |-> out.producer, text |-> out.text]
       /\ steps' = out.steps
       /\ request' = out.request
       /\ log' = Append(log, [producer |-> out.producer, raised |-> out.raised,
                              confidence |-> IF out.raised THEN 0
                                             ELSE out.val.confidence])
       /\ UNCHANGED console

\* a query while the probe fails: the chat request is never made, so its
\* outcome and the clock reading at recording time are not inputs
QueryUnreachable(user_input, probe) ==
    /\ probe # "status_200"
    /\ ProcessQuery(user_input, probe, "none", EmptyObject, 0)

\* a query whose chat request fails before any content is read
QueryDispatchFails(user_input, transport, elapsed) ==
    /\ DispatchRaises(transport)
    /\ ProcessQuery(user_input, "status_200", transport, EmptyObject, elapsed)

\* a query answered with a body that has no message content
QueryNoContent(user_input, elapsed) ==
    ProcessQuery(user_input, "status_200", "no_message", EmptyObject, elapsed)

\* a query answered with the text d
QueryAnswered(user_input, d, elapsed) ==
    ProcessQuery(user_input, "status_200", "ok", d, elapsed)

\* show_performance_stats: prints the counters and the rates, changes nothing
ShowPerformanceStats ==
    /\ console' = [total_requests |-> performance_stats.total_requests,
                   successful_parses |-> performance_stats.successful_parses,
                   fallbacks_used |-> performance_stats.fallbacks_used,
                   success_rate |->
                       Quotient((performance_stats.total_requests
                                   - performance_stats.fallbacks_used) * 100,
                                Max(performance_stats.total_requests, 1)),
                   avg_confidence |-> performance_stats.avg_confidence]
    /\ UNCHANGED <<processor, now, call, returned, steps, request, log>>

\* the line interactive_chat prints when its loop catches an exception
UnexpectedErrorNotice(text) ==
    <<"[bold red]", "Unexpected error: ">> \o text \o <<"[/bold red]">>

\* the session is over once a call raised and the handler of the loop,
\* printing the text of the exception, raised again: main has no handler
SessionEnded ==
    /\ returned.raised
    /\ MarkupRaises(UnexpectedErrorNotice(returned.text), <<>>)

Next ==
    \/ \E q \in CoreQueries, p \in ProbeResults :
          ~SessionEnded /\ Len(log) < MaxCalls /\ QueryUnreachable(q, p)
    \/ \E q \in CoreQueries, t \in CoreTransports, e \in CoreLatencies :
          ~SessionEnded /\ Len(log) < MaxCalls /\ QueryDispatchFails(q, t, e)
    \/ \E q \in CoreQueries, e \in CoreLatencies :
          ~SessionEnded /\ Len(log) < MaxCalls /\ QueryNoContent(q, e)
    \/ \E q \in CoreQueries, d \in CoreDocuments, e \in CoreLatencies :
          ~SessionEnded /\ Len(log) < MaxCalls /\ QueryAnswered(q, d, e)
    \/ ~SessionEnded /\ ShowPerformanceStats

\* runs of up to MaxCalls queries over the core inputs
Spec == Init /\ [][Next]_vars

NextInputs ==
    \/ \E q \in Queries, p \in ProbeResults :
          ~SessionEnded /\ Len(log) < MaxInputCalls /\ QueryUnreachable(q, p)
    \/ \E q \in Queries, t \in TransportOutcomes, e \in Latencies :
          ~SessionEnded /\ Len(log) < MaxInputCalls /\ QueryDispatchFails(q, t, e)
    \/ \E q \in Queries, e \in Latencies :
          ~SessionEnded /\ Len(log) < MaxInputCalls /\ QueryNoContent(q, e)
    \/ \E q \in Queries, d \in Documents, e \in Latencies :
          ~SessionEnded /\ Len(log) < MaxInputCalls /\ QueryAnswered(q, d, e)

\* runs of up to MaxInputCalls queries over every query and document
SpecInputs == Init /\ [][NextInputs]_vars

(***************************************************************************)
(* Queries for the keyword classifier: one word, or two words separated by *)
(* a space, in mixed case; and the heuristic tier reached with each.       *)
(***************************************************************************)
WordAnalyze == <<"a","n","a","l","y","z","e">>

WordCompare == <<"C","o","m","p","a","r","e">>

WordEvaluate == <<"E","V","A","L","U","A","T","E">>

WordExplore == <<"e","x","p","l","o","r","e">>

WordLearn == <<"L","e","a","r","n">>

WordDiscover == <<"d","i","s","C","o","v","e","r">>

WordCreate == <<"C","r","e","a","t","e">>

WordBuild == <<"b","u","i","l","d">>

WordRemake == <<"r","e","M","A","K","E">>

WordHello == <<"h","e","l","l","o">>

QueryDesigns == <<"P","l","e","a","s","e"," ","a","n","a","l","y","z","e"," ","a","n","d"," ","c","o","m","p","a","r","e"," ","t","h","e","s","e"," ","t","w","o"," ","d","e","s","i","g","n","s">>

Words == {WordAnalyze, WordCompare, WordEvaluate, WordExplore, WordDiscover,
          WordLearn, WordBuild, WordCreate, WordRemake, WordHello}

Phrase(a, b) == a \o <<" ">> \o b

PhraseQueries == Words \cup {Phrase(a, b) : a, b \in Words} \cup {QueryDesigns}

\* bound on the number of process_query calls in a run of SpecHeuristic
MaxHeuristicCalls == 1

NextHeuristic ==
    \/ \E q \in PhraseQueries, e \in CoreLatencies :
          ~SessionEnded /\ Len(log) < MaxHeuristicCalls /\ QueryDispatchFails(q, "timeout", e)
    \/ \E q \in PhraseQueries, e \in CoreLatencies :
          ~SessionEnded /\ Len(log) < MaxHeuristicCalls /\ QueryNoContent(q, e)
    \/ \E q \in PhraseQueries, e \in CoreLatencies :
          ~SessionEnded /\ Len(log) < MaxHeuristicCalls /\ QueryAnswered(q, Prose, e)

\* runs of up to MaxHeuristicCalls queries that all end in the keyword fallback
SpecHeuristic == Init /\ [][NextHeuristic]_vars

(***************************************************************************)
(* Longer conversations over few inputs, each answered under a different   *)
(* persona, for what a request says about the exchanges before it.         *)
(***************************************************************************)
BuilderAnswer == [Example EXCEPT !.persona = Str("Builder")]

ContextDocuments == {Example, BuilderAnswer, OutOfRange}

\* bound on the number of process_query calls in a run of SpecContext
MaxContextCalls == 5

NextContext ==
    \/ ~SessionEnded /\ Len(log) < MaxContextCalls /\ QueryUnreachable(QueryHello, "status_503")
    \/ \E e \in CoreLatencies, t \in {"timeout", "http_error_closing_tag"} :
          ~SessionEnded /\ Len(log) < MaxContextCalls /\ QueryDispatchFails(QueryAnalyze, t, e)
    \/ \E d \in ContextDocuments, e \in CoreLatencies :
          ~SessionEnded /\ Len(log) < MaxContextCalls /\ QueryAnswered(QueryHello, d, e)

\* runs of up to MaxContextCalls queries
SpecContext == Init /\ [][NextContext]_vars

(***************************************************************************)
(* Properties.                                                             *)
(***************************************************************************)
\* a call of process_query has been made; call/returned describe the last one
CallMade == call.probe # "none"

\* the last call's chat request was answered and its content parsed
Answered == call.probe = "status_200" /\ call.transport \in {"ok", "no_message"}

HasFallbackType(val) == val.metadata.present /\ "fallback_type" \in DOMAIN val.metadata.map

Producers == {"validator", "partial", "heuristic", "connection"}

\* C1 (as claimed): process_query never raises to its caller: whatever the query, the
\* probe result, the transport outcome and the content text, the call ends
\* by returning a record produced by one of the four tiers.
ProcessQueryNeverRaises ==
    CallMade => /\ ~returned.raised
                /\ returned.producer \in Producers
                /\ DOMAIN returned.val = DOMAIN MessageOf(Example)

InUnit(x) == UnitLo <= x /\ x <= UnitHi

\* C2: on every path the returned record has intensity, arousal, confidence
\* and (when present) stability in [0,1], valence in [-1,1], persona among
\* the five personas and behavior.name among the ten behavior names.
ReturnedRecordInRange ==
    CallMade /\ ~returned.raised =>
        /\ InUnit(returned.val.emotional_state.intensity)
        /\ ValenceLo <= returned.val.emotional_state.valence
        /\ returned.val.emotional_state.valence <= ValenceHi
        /\ InUnit(returned.val.emotional_state.arousal)
        /\ returned.val.emotional_state.stability.t # "null"
              => InUnit(returned.val.emotional_state.stability.n)
        /\ InUnit(returned.val.confidence)
        /\ returned.val.persona \in Personas
        /\ returned.val.behavior.name \in BehaviorNames

\* a document with an unknown persona and three numbers out of range was
\* reconstructed, each number brought to its nearest bound
InRangeWitness ==
    /\ returned.producer = "partial"
    /\ call.document = OutOfRange
    /\ returned.val.confidence = UnitHi
    /\ returned.val.emotional_state.valence = ValenceLo
    /\ returned.val.persona = "Sage"

\* C3 (as claimed): every process_query call appends exactly one entry, on
\* every path including the connectivity failure, so after N completed calls
\* the history has N entries.
OneEntryPerCall == Len(interaction_history) = Len(log)

\* C4 (as claimed): every record returned from an error path carries
\* metadata.fallback_type; only records of the Validator path lack it.
ErrorRecordsMarked ==
    CallMade /\ ~returned.raised /\ returned.producer # "validator"
        => HasFallbackType(returned.val)

\* C5: when the probe reports the transport unreachable, the record has
\* intent connection_error, persona Sage and confidence 0.95 whatever the
\* query says, and no request is dispatched.
UnreachableGivesConnectionError ==
    CallMade /\ call.probe # "status_200" =>
        /\ ~returned.raised
        /\ returned.val.intent = "connection_error"
        /\ returned.val.persona = "Sage"
        /\ returned.val.confidence = 95
        /\ request = <<>>
        /\ \A i \in 1..Len(steps) : steps[i] # "post"

\* a query made of classification keywords, asked while the probe fails
ConnectionErrorWitness ==
    /\ call.probe = "status_503"
    /\ call.user_input = QueryExploreCompare
    /\ returned.val.intent = "connection_error"
    /\ returned.val.behavior.name = "acknowledge"

\* an Optional field of the record holds what the document holds
OptionalKept(src, got) ==
    /\ got.t = "null" <=> src.t \in {"absent", "null"}
    /\ src.t = "str" => got.t = "str" /\ got.s = src.s
    /\ src.t \in {"num", "numstr"} => got.t = "num" /\ got.n = src.n

\* every field the schema declares has, in the record, the value the
\* document gives it
DeclaredFieldsKept(d, val) ==
    /\ val.intent = d.intent.s
    /\ val.persona = d.persona.s
    /\ val.emotional_state.primary = d.primary.s
    /\ OptionalKept(d.secondary, val.emotional_state.secondary)
    /\ val.emotional_state.intensity = d.intensity.n
    /\ val.emotional_state.valence = d.valence.n
    /\ val.emotional_state.arousal = d.arousal.n
    /\ OptionalKept(d.stability, val.emotional_state.stability)
    /\ OptionalKept(d.emoji, val.emoji)
    /\ val.response = (IF d.response.s = "" THEN <<>> ELSE <<d.response.s>>)
    /\ val.behavior.name = d.name.s
    /\ OptionalKept(d.goal, val.behavior.goal)
    /\ Len(val.behavior.actions) = Len(d.action_items)
    /\ \A i \in 1..Len(d.action_items) :
          /\ val.behavior.actions[i].type = d.action_items[i].type.s
          /\ OptionalKept(d.action_items[i].target, val.behavior.actions[i].target)
          /\ OptionalKept(d.action_items[i].value, val.behavior.actions[i].value)
          /\ OptionalKept(d.action_items[i].duration, val.behavior.actions[i].duration)
          /\ OptionalKept(d.action_items[i].priority, val.behavior.actions[i].priority)
    /\ val.confidence = d.confidence.n

\* the document's own metadata mapping has a fallback_type key
SuppliesFallbackType(d) == d.metadata.t = "obj" /\ d.md_fallback_type.t # "absent"

MetadataKept(d, val) ==
    /\ val.metadata.present <=> d.metadata.t = "obj"
    /\ val.metadata.present =>
          /\ DOMAIN val.metadata.map \subseteq {"fallback_type", "processing_notes"}
          /\ "fallback_type" \in DOMAIN val.metadata.map
                <=> d.md_fallback_type.t # "absent"
          /\ d.md_fallback_type.t # "absent"
                => val.metadata.map["fallback_type"] = d.md_fallback_type
          /\ "processing_notes" \in DOMAIN val.metadata.map
                <=> d.md_processing_notes.t # "absent"
          /\ d.md_processing_notes.t # "absent"
                => val.metadata.map["processing_notes"] = d.md_processing_notes

\* C6 (as claimed): a text that validates strictly comes back structurally
\* identical, no field substituted, clamped or dropped, and without
\* metadata.fallback_type, also when it carries its own metadata mapping.
ValidatedIdenticalAndUnmarked ==
    CallMade /\ returned.producer = "validator" =>
        /\ DeclaredFieldsKept(call.document, returned.val)
        /\ MetadataKept(call.document, returned.val)
        /\ ~call.document.extra
        /\ ~HasFallbackType(returned.val)

\* C6 (amended): a text that validates strictly comes back with every
\* declared field holding the document's value, nothing clamped or
\* defaulted, and with the document's own metadata: fallback_type is present
\* exactly when the document's metadata mapping supplies it.
ValidatedKeepsDeclaredFields ==
    CallMade /\ returned.producer = "validator" =>
        /\ DeclaredFieldsKept(call.document, returned.val)
        /\ MetadataKept(call.document, returned.val)
        /\ HasFallbackType(returned.val) <=> SuppliesFallbackType(call.document)

\* a valid document whose metadata names a fallback_type was validated
ValidatedOwnMetadataWitness ==
    /\ returned.producer = "validator"
    /\ call.document = OwnFallbackType
    /\ returned.val.metadata.map["fallback_type"] = Str("model_supplied")
    /\ returned.val.confidence = 85

\* the single action of the reconstruction tier
SyntheticActions ==
    <<[type |-> "state", target |-> Str("assistance"), value |-> Str("active"),
       duration |-> Null, priority |-> Null]>>

\* generic JSON the reconstruction can read: an object whose intent,
\* response and primary are absent or strings, whose emoji and goal are
\* absent, null or strings, whose emotional_state and behavior are absent or
\* objects and whose four numbers are absent or numbers
Reconstructible(d) ==
    /\ d.top = "obj"
    /\ d.intent.t \in {"absent", "str"}
    /\ d.response.t \in {"absent", "str"}
    /\ d.emoji.t \in {"absent", "null", "str"}
    /\ d.confidence.t \in {"absent", "num"}
    /\ \/ d.emotional_state.t = "absent"
       \/ /\ d.emotional_state.t = "obj"
          /\ d.primary.t \in {"absent", "str"}
          /\ d.intensity.t \in {"absent", "num"}
          /\ d.valence.t \in {"absent", "num"}
          /\ d.arousal.t \in {"absent", "num"}
    /\ \/ d.behavior.t = "absent"
       \/ /\ d.behavior.t = "obj"
          /\ d.goal.t \in {"absent", "null", "str"}

\* the content of the last call is JSON and fails strict validation
GenericJsonOnly ==
    Answered /\ call.document.top # "text" /\ ~ValidMessage(call.document)

FallbackTypeIs(val, type) ==
    HasFallbackType(val) /\ val.metadata.map["fallback_type"] = Str(type)

\* C7 (as claimed): whenever the text is JSON that fails strict validation
\* (missing, wrong-typed or null field, value out of enum or range,
\* non-object top level), partial reconstruction succeeds and the record has
\* exactly the single synthetic action and fallback_type partial_extraction.
GenericJsonAlwaysReconstructed ==
    GenericJsonOnly =>
        /\ returned.producer = "partial"
        /\ returned.val.behavior.actions = SyntheticActions
        /\ FallbackTypeIs(returned.val, "partial_extraction")

\* C7 (amended): JSON that fails strict validation is reconstructed, with
\* exactly the single synthetic action and fallback_type partial_extraction,
\* when it is an object whose fields read by the reconstruction are absent
\* or of a usable type; otherwise the reconstruction raises and the record
\* is the heuristic one, fallback_type intelligent_analysis.
GenericJsonReconstructedWhenReadable ==
    GenericJsonOnly =>
        IF Reconstructible(call.document)
        THEN /\ returned.producer = "partial"
             /\ returned.val.behavior.actions = SyntheticActions
             /\ FallbackTypeIs(returned.val, "partial_extraction")
        ELSE /\ returned.producer = "heuristic"
             /\ FallbackTypeIs(returned.val, "intelligent_analysis")

\* a document with two source actions and no intent was reconstructed with
\* the single synthetic action
ReconstructedWitness ==
    /\ GenericJsonOnly
    /\ Len(call.document.action_items) = 2
    /\ returned.producer = "partial"
    /\ returned.val.behavior.actions = SyntheticActions
    /\ returned.val.intent = "general_assistance"

\* C8 (as claimed): an entry's success flag is true only if its record was
\* produced by the Validator path; entries of reconstructed or synthesized
\* records have success = false.
SuccessOnlyWhenValidated ==
    \A i \in 1..Len(interaction_history) :
        interaction_history[i].success
            => log[interaction_history[i].timestamp].producer = "validator"

\* C9 (as claimed): fallbacks_used equals the number of calls whose record
\* was not produced by the Validator path, each counted once.
FallbacksCountNonValidated ==
    performance_stats.fallbacks_used
        = Cardinality({i \in 1..Len(log) : log[i].producer # "validator"})

RECURSIVE SumReturned(_)
SumReturned(entries) ==
    IF Len(entries) = 0 THEN 0
    ELSE entries[1].confidence + SumReturned(Tail(entries))

\* C10 (as claimed): after N calls that returned records with confidences
\* c1..cN, avg_confidence is the arithmetic mean of c1..cN.
AvgIsMeanOfReturned ==
    Len(log) > 0 =>
        performance_stats.avg_confidence.num * Len(log)
            = SumReturned(log) * performance_stats.avg_confidence.den

\* the rule a single word falls under: 1 analysis, 2 exploration,
\* 3 creation, 4 none
RuleOfWord(w) ==
    IF w \in {WordAnalyze, WordCompare, WordEvaluate} THEN 1
    ELSE IF w \in {WordExplore, WordDiscover, WordLearn} THEN 2
    ELSE IF w \in {WordBuild, WordCreate, WordRemake} THEN 3
    ELSE 4

\* what each rule of the ordered list yields
RuleResult(r) ==
    IF r = 1 THEN <<"Strategist", "analyze", "analytical", "analysis_request">>
    ELSE IF r = 2 THEN <<"Explorer", "explore", "curious", "exploration_request">>
    ELSE IF r = 3 THEN <<"Builder", "guide", "practical", "creation_request">>
    ELSE <<"Sage", "acknowledge", "helpful", "general_assistance">>

Classified(val) ==
    <<val.persona, val.behavior.name, val.emotional_state.primary, val.intent>>

EarlierRule(r1, r2) == IF r1 < r2 THEN r1 ELSE r2

\* C11: the HeuristicSynthesizer classifies by case-insensitive substring,
\* first match wins over analysis, exploration, creation, else the default:
\* a query with keywords of several rules gets the earliest rule's result.
FirstMatchWins ==
    CallMade /\ returned.producer = "heuristic" =>
        /\ \A w \in Words :
              call.user_input = w => Classified(returned.val) = RuleResult(RuleOfWord(w))
        /\ \A a, b \in Words :
              call.user_input = Phrase(a, b) =>
                 Classified(returned.val)
                    = RuleResult(EarlierRule(RuleOfWord(a), RuleOfWord(b)))
        /\ call.user_input = QueryDesigns => Classified(returned.val) = RuleResult(1)

\* "build EVALUATE": a creation keyword first in the text, an analysis
\* keyword in capitals after it, classified as analysis
FirstMatchWitness ==
    /\ returned.producer = "heuristic"
    /\ call.user_input = Phrase(WordBuild, WordEvaluate)
    /\ returned.val.persona = "Strategist"
    /\ returned.val.intent = "analysis_request"

\* the reachable-probe cases that end in the generic heuristic record: the
\* dispatch raised, the raw text is no JSON, or the text is JSON that fails
\* validation and that the reconstruction cannot read
DispatchFailed == call.probe = "status_200" /\ DispatchRaises(call.transport)

TextUnparsable == Answered /\ call.document.top = "text"

ReconstructionThrows == GenericJsonOnly /\ ~Reconstructible(call.document)

IsGenericHeuristic(r, diagnostic) ==
    /\ ~r.raised
    /\ r.producer = "heuristic"
    /\ FallbackTypeIs(r.val, "intelligent_analysis")
    /\ r.val.confidence = 60
    /\ r.val.metadata.map["error"] = Str(diagnostic)

\* C12 (as claimed): after a reachable probe, when the dispatch raises or times out, or
\* the raw text is not parseable as JSON, or partial reconstruction throws,
\* process_query returns the generic heuristic record: fallback_type
\* intelligent_analysis, confidence 0.6, the diagnostic message in metadata.
FailuresGiveGenericHeuristic ==
    /\ DispatchFailed => IsGenericHeuristic(returned, DispatchExc(call.transport))
    /\ TextUnparsable \/ ReconstructionThrows =>
          IsGenericHeuristic(returned, <<"JSON parsing failed: ", ValidationErrorText>>)

\* the positions of a step in the steps of the last call
At(step) == {i \in 1..Len(steps) : steps[i] = step}

Before(a, b) == \A j \in At(b) : \E i \in At(a) : i < j

\* C13: within one query the steps occur only in the order connectivity
\* check, dispatch, validation / partial reconstruction / synthesis, record:
\* a dispatch only after a reachable probe, strict validation before partial
\* reconstruction and that only after validation failed, heuristic synthesis
\* on the raw text only after both failed, and the call ends only after the
\* interaction was recorded.
StepsInOrder ==
    CallMade =>
        /\ steps[1] = "check_connection"
        /\ At("post") # {} => call.probe = "status_200" /\ Before("prepare_messages", "post")
        /\ Before("post", "validate")
        /\ Before("validate", "json_loads")
        /\ Before("json_loads", "partial_meld")
        /\ At("json_loads") # {} => ~ValidMessage(call.document)
        /\ At("validate") # {} /\ At("intelligent_fallback") # {} =>
              /\ ~ValidMessage(call.document)
              /\ call.document.top = "text" \/ ~Reconstructible(call.document)
              /\ Before("json_loads", "intelligent_fallback")
        /\ steps[Len(steps)] = "record_interaction"

\* the history as it was when the last dispatched request was prepared: a
\* dispatched call that ends records one entry after the request went out,
\* one that raises records none
HistoryAtDispatch ==
    IF steps[Len(steps)] = "record_interaction"
    THEN SubSeq(interaction_history, 1, Len(interaction_history) - 1)
    ELSE interaction_history

ContextClause(names) ==
    <<"\nRecent interaction context: You've been acting as ">> \o names
        \o <<" in recent exchanges.">>

\* C14: the context clause of each dispatched request lists at most three
\* personas, exactly those of the min(3, len(history)) most recently recorded
\* interactions in arrival order; with an empty history there is no clause
\* and the instruction payload is the fixed system directive alone.
ContextIsLastThreePersonas ==
    request # <<>> =>
        LET h == HistoryAtDispatch
            k == Len(h)
            system == request[1].system
        IN /\ k = 0 => system = <<MELD_SYSTEM_PROMPT>>
           /\ k = 1 => system = <<MELD_SYSTEM_PROMPT>> \o ContextClause(<<h[1].persona>>)
           /\ k = 2 => system = <<MELD_SYSTEM_PROMPT>>
                                   \o ContextClause(<<h[1].persona, ", ", h[2].persona>>)
           /\ k >= 3 => system = <<MELD_SYSTEM_PROMPT>>
                                    \o ContextClause(<<h[k - 2].persona, ", ",
                                                       h[k - 1].persona, ", ",
                                                       h[k].persona>>)

\* the fifth recorded call: four entries before it, the oldest (Strategist)
\* is left out of the clause
ContextWitness ==
    /\ request # <<>>
    /\ Len(HistoryAtDispatch) = 4
    /\ HistoryAtDispatch[1].persona = "Strategist"
    /\ request[1].system = <<MELD_SYSTEM_PROMPT>>
                              \o ContextClause(<<"Explorer", ", ", "Builder", ", ", "Sage">>)

IsPrefix(a, b) == Len(a) <= Len(b) /\ SubSeq(b, 1, Len(a)) = a

\* C15: the interaction history is append-only: over process_query and the
\* statistics display, every step leaves the earlier history as a prefix of
\* the later one (no entry modified, reordered or removed), and a call that
\* reaches _record_interaction always adds exactly one entry.
HistoryAppendOnly ==
    [][/\ IsPrefix(interaction_history, interaction_history')
       /\ (log' # log /\ steps'[Len(steps')] = "record_interaction") =>
             Len(interaction_history') = Len(interaction_history) + 1]_vars

\* three recorded entries with distinct timestamps, the statistics shown
HistoryGrownWitness ==
    /\ Len(interaction_history) = 3
    /\ interaction_history[1].timestamp < interaction_history[2].timestamp
    /\ interaction_history[2].timestamp < interaction_history[3].timestamp
    /\ interaction_history[1].persona # interaction_history[2].persona
    /\ console # <<>>

\* C16: every record returned by process_query, whichever tier produced it
\* (Validator, PartialReconstructor, HeuristicSynthesizer, connectivity
\* fallback), has a behavior with at least one action.
ActionsNonEmpty ==
    CallMade /\ ~returned.raised => Len(returned.val.behavior.actions) >= 1

\* C17: every record returned by process_query has a non-empty response
\* text, on the Validator path, on the partial-reconstruction path (a source
\* response is kept when present) and on the synthesized paths.
ResponseNonEmpty ==
    CallMade /\ ~returned.raised => returned.val.response # <<>>

AllowedPersonas == {"Strategist", "Architect", "Builder", "Explorer", "Sage"}

AllowedBehaviorNames == {"guide", "analyze", "explore", "synthesize", "challenge",
                         "acknowledge", "adapt", "focus", "diverge", "soothe"}

\* the last call was answered by the partial reconstruction
Reconstructed == CallMade /\ ~returned.raised /\ returned.producer = "partial"

SourceIs(v, allowed) == v.t = "str" /\ v.s \in allowed

\* the name of the source's behavior: none when there is no behavior object
SourceName == IF call.document.behavior.t = "obj" THEN call.document.name ELSE Absent

\* C18: in partial reconstruction the enumerated fields are normalized per
\* field: persona is the source persona when that is one of the five allowed
\* values and Sage otherwise; behavior.name is the source name when that is
\* one of the ten allowed values and acknowledge otherwise; no other string
\* is passed through.
EnumsNormalizedPerField ==
    Reconstructed =>
        /\ returned.val.persona \in AllowedPersonas
        /\ returned.val.behavior.name \in AllowedBehaviorNames
        /\ SourceIs(call.document.persona, AllowedPersonas)
              => returned.val.persona = call.document.persona.s
        /\ ~SourceIs(call.document.persona, AllowedPersonas)
              => returned.val.persona = "Sage"
        /\ SourceIs(SourceName, AllowedBehaviorNames)
              => returned.val.behavior.name = SourceName.s
        /\ ~SourceIs(SourceName, AllowedBehaviorNames)
              => returned.val.behavior.name = "acknowledge"

\* an unrecognized persona becomes Sage while the allowed name next to it
\* is kept
EnumsNormalizedWitness ==
    /\ Reconstructed
    /\ call.document.persona = Str("Wizard")
    /\ returned.val.persona = "Sage"
    /\ call.document.name = Str("explore")
    /\ returned.val.behavior.name = "explore"

\* the number the source gives for a field of emotional_state, or the
\* default when the object or the field is missing
SourceEmotion(field, default) ==
    IF call.document.emotional_state.t = "obj" /\ field.t = "num" THEN field.n ELSE default

SourceConfidence ==
    IF call.document.confidence.t = "num" THEN call.document.confidence.n ELSE 60

Nearest(v, lo, hi) == IF v < lo THEN lo ELSE IF v > hi THEN hi ELSE v

\* C19: in partial reconstruction each of intensity, valence, arousal and
\* confidence equals the source value when present, else the default (0.7,
\* 0.5, 0.5, 0.6), brought to the nearest bound of its range ([-1,1] for
\* valence, [0,1] for the others) when it lies outside.
NumbersClampedFromSource ==
    Reconstructed =>
        /\ returned.val.emotional_state.intensity
              = Nearest(SourceEmotion(call.document.intensity, 70), UnitLo, UnitHi)
        /\ returned.val.emotional_state.valence
              = Nearest(SourceEmotion(call.document.valence, 50), ValenceLo, ValenceHi)
        /\ returned.val.emotional_state.arousal
              = Nearest(SourceEmotion(call.document.arousal, 50), UnitLo, UnitHi)
        /\ returned.val.confidence = Nearest(SourceConfidence, UnitLo, UnitHi)

\* intensity 1.5, valence -1.5 and confidence 1.5 come back as 1.0, -1.0
\* and 1.0, the arousal inside its range as it was
NumbersClampedWitness ==
    /\ Reconstructed
    /\ call.document.intensity = Num(150) /\ returned.val.emotional_state.intensity = 100
    /\ call.document.valence = Num(-150) /\ returned.val.emotional_state.valence = -100
    /\ call.document.confidence = Num(150) /\ returned.val.confidence = 100
    /\ call.document.arousal.t = "num"
    /\ returned.val.emotional_state.arousal = call.document.arousal.n

\* the numbers the source of the last call gives, each with its range
SourceNumbers ==
    LET d == call.document
    IN {<<f[1].n, f[2], f[3]>> :
          f \in {g \in {<<d.intensity, UnitLo, UnitHi>>, <<d.valence, ValenceLo, ValenceHi>>,
                        <<d.arousal, UnitLo, UnitHi>>, <<d.confidence, UnitLo, UnitHi>>} :
                   g[1].t = "num"}}

\* the numbers of the returned record, each with its range
ReturnedNumbers ==
    {<<returned.val.emotional_state.intensity, UnitLo, UnitHi>>,
     <<returned.val.emotional_state.valence, ValenceLo, ValenceHi>>,
     <<returned.val.emotional_state.arousal, UnitLo, UnitHi>>,
     <<returned.val.confidence, UnitLo, UnitHi>>}

\* C20: min(max(v, lo), hi) is idempotent: a v with lo <= v <= hi comes back
\* unchanged, lo and hi come back as themselves, and clamping a clamped
\* value changes nothing, for every number a document supplies and for the
\* numbers of every reconstructed record.
ClampIdempotent ==
    /\ Answered =>
          \A x \in SourceNumbers :
             /\ Clamp(Clamp(x[1], x[2], x[3]), x[2], x[3]) = Clamp(x[1], x[2], x[3])
             /\ x[2] <= x[1] /\ x[1] <= x[3] => Clamp(x[1], x[2], x[3]) = x[1]
             /\ Clamp(x[2], x[2], x[3]) = x[2]
             /\ Clamp(x[3], x[2], x[3]) = x[3]
    /\ Reconstructed =>
          \A x \in ReturnedNumbers : Clamp(x[1], x[2], x[3]) = x[1]

\* a reconstructed record whose source numbers lie on the bounds 0.0, -1.0,
\* 1.0 and 1.0 and come back as those bounds
ClampAtBoundsWitness ==
    /\ Reconstructed
    /\ call.document.intensity = Num(UnitLo) /\ returned.val.emotional_state.intensity = UnitLo
    /\ call.document.valence = Num(ValenceLo)
    /\ returned.val.emotional_state.valence = ValenceLo
    /\ call.document.arousal = Num(UnitHi) /\ returned.val.emotional_state.arousal = UnitHi
    /\ call.document.confidence = Num(UnitHi) /\ returned.val.confidence = UnitHi

\* the calls so far whose record a given tier produced
CallsBy(tier) == {i \in 1..Len(log) : log[i].producer = tier}

\* the raw text of the last call passed strict validation
PassedValidation == Answered /\ ValidMessage(call.document)

\* C21: after any sequence of calls successful_parses equals the number of
\* calls whose raw text passed strict validation: one increment on the
\* Validator path, none on the partial, heuristic, transport-exception and
\* connectivity-failure paths.
ParsesCountValidated ==
    /\ performance_stats.successful_parses = Cardinality(CallsBy("validator"))
    /\ CallMade => (returned.producer = "validator" <=> PassedValidation)

\* three calls, one on each of the connectivity, heuristic and Validator
\* paths, counted as one successful parse
ParsesCountWitness ==
    /\ Len(log) = 3
    /\ CallsBy("connection") # {} /\ CallsBy("heuristic") # {}
    /\ Cardinality(CallsBy("validator")) = 1
    /\ performance_stats.successful_parses = 1

\* a record without the diagnostic message of its metadata
WithoutError(val) ==
    [val EXCEPT !.metadata.map =
        [k \in DOMAIN val.metadata.map \ {"error"} |-> val.metadata.map[k]]]

\* what the HeuristicSynthesizer gives for a query on a fresh processor
\* with an empty diagnostic
HeuristicOnFresh(user_input) ==
    CreateIntelligentFallback([successful_parses |-> 0, fallbacks_used |-> 0,
                               total_requests |-> 0, avg_confidence |-> Quotient(0, 1)],
                              user_input, <<>>).val

\* the recorded calls the HeuristicSynthesizer answered
HeuristicEntries ==
    {i \in 1..Len(interaction_history) :
        log[interaction_history[i].timestamp].producer = "heuristic"}

\* C22: the HeuristicSynthesizer's output depends on the query text alone:
\* two invocations with the same query give the same intent, persona,
\* emotional_state, behavior and confidence whatever the raw text, the
\* diagnostic, the history and the counters are; only metadata.error differs.
HeuristicDependsOnQueryOnly ==
    /\ CallMade /\ returned.producer = "heuristic" =>
          WithoutError(returned.val) = WithoutError(HeuristicOnFresh(call.user_input))
    /\ \A i, j \in HeuristicEntries :
          interaction_history[i].user_input = interaction_history[j].user_input =>
             /\ interaction_history[i].persona = interaction_history[j].persona
             /\ interaction_history[i].behavior = interaction_history[j].behavior
             /\ interaction_history[i].confidence = interaction_history[j].confidence

\* the same query answered twice by the HeuristicSynthesizer, first after a
\* timeout on a fresh processor, then after unreadable JSON with counters
\* and history changed, with different diagnostics
HeuristicTwiceWitness ==
    /\ Len(interaction_history) = 2 /\ HeuristicEntries = {1, 2}
    /\ interaction_history[1].user_input = interaction_history[2].user_input
    /\ call.transport = "ok"
    /\ returned.val.metadata.map["error"]
          = Str(<<"JSON parsing failed: ", ValidationErrorText>>)
    /\ performance_stats.fallbacks_used >= 2
    /\ returned.val.persona = interaction_history[1].persona

\* C23: in every reachable state successful_parses + fallbacks_used <=
\* total_requests, so fallbacks_used never exceeds total_requests and the
\* success rate shown by show_performance_stats lies between 0 and 1 (0 %
\* and 100 %).
CountersWithinRequests ==
    /\ performance_stats.successful_parses + performance_stats.fallbacks_used
          <= performance_stats.total_requests
    /\ performance_stats.fallbacks_used <= performance_stats.total_requests
    /\ console # <<>> =>
          /\ 0 <= console.success_rate.num
          /\ console.success_rate.num <= 100 * console.success_rate.den

\* the last call went through _record_interaction
Recorded == CallMade /\ steps[Len(steps)] = "record_interaction"

LastEntry == interaction_history[Len(interaction_history)]

\* C24: an entry recorded by process_query has the persona, behavior name
\* and confidence of the record returned by that call and the query passed
\* in; so every persona and behavior name in the history is a member of its
\* enumeration and every recorded confidence is in [0,1].
EntryMirrorsReturned ==
    /\ Recorded =>
          /\ LastEntry.persona = returned.val.persona
          /\ LastEntry.behavior = returned.val.behavior.name
          /\ LastEntry.confidence = returned.val.confidence
          /\ LastEntry.user_input = call.user_input
    /\ \A i \in 1..Len(interaction_history) :
          /\ interaction_history[i].persona \in AllowedPersonas
          /\ interaction_history[i].behavior \in AllowedBehaviorNames
          /\ InUnit(interaction_history[i].confidence)

\* a reconstructed record entered in the history after two other entries:
\* the clamped confidence 1.0 and the defaulted persona Sage are what is kept
EntryMirrorsWitness ==
    /\ Recorded /\ Len(interaction_history) = 3
    /\ returned.producer = "partial" /\ call.document = OutOfRange
    /\ LastEntry.confidence = UnitHi /\ LastEntry.persona = "Sage"
    /\ LastEntry.behavior = "explore"
    /\ LastEntry.user_input = QueryAnalyze

\* C25: a process_query call whose connectivity probe reports unreachable
\* changes only total_requests, by one: interaction_history,
\* successful_parses, fallbacks_used, avg_confidence, last_processing_time
\* and last_user_query stay as they were.
UnreachableChangesOnlyRequests ==
    [][(log' # log /\ call'.probe # "status_200") =>
          /\ performance_stats'
                = [performance_stats EXCEPT !.total_requests = @ + 1]
          /\ interaction_history' = interaction_history
          /\ last_processing_time' = last_processing_time
          /\ last_user_query' = last_user_query]_vars

\* an unreachable call after two recorded ones: three requests counted, the
\* two entries, the counters and the last query of the earlier calls kept
UnreachableFrameWitness ==
    /\ call.probe = "exception" /\ Len(log) = 3
    /\ performance_stats.total_requests = 3
    /\ Len(interaction_history) = 2
    /\ performance_stats.successful_parses = 1
    /\ performance_stats.fallbacks_used = 1
    /\ last_user_query = QueryAnalyze /\ call.user_input = QueryHello

\* C26 (as claimed): total_requests is incremented once per process_query call, before
\* the probe, so it equals the number of calls made; the history is never
\* longer than total_requests, and the difference is the number of calls
\* that ended in the connectivity fallback.
RequestsCountCalls ==
    /\ performance_stats.total_requests = Len(log)
    /\ Len(interaction_history) <= performance_stats.total_requests
    /\ performance_stats.total_requests - Len(interaction_history)
          = Cardinality(CallsBy("connection"))
    /\ \A i \in 1..Len(log) :
          log[i].producer = "connection" <=>
             ~\E k \in 1..Len(interaction_history) : interaction_history[k].timestamp = i

====
